---- MODULE Spec2Model ----
(***************************************************************************)
(* Model of the Sandbox cellular-automaton engine (src/main.cpp).          *)
(*                                                                         *)
(* The grid is double buffered (grid / grid_updates, addressed through the *)
(* pointers currentGrid / nextGrid).  A Cell is the packed record of       *)
(* main.cpp:67-88; the one-byte CellData union is kept as a byte (data)    *)
(* and the category specific members are bit slices of that byte, as the   *)
(* bit-field declarations of main.cpp:41-57 lay them out (first declared   *)
(* member in the low bits).                                                *)
(*                                                                         *)
(* Randomness (rand(), std::shuffle) is a nondeterministic choice, so the  *)
(* operators that consume it return the SET of states they can produce.    *)
(* Temperatures are exchanged in hundredths: cpp's float product           *)
(* delta * 0.01f followed by the truncating conversion back to the         *)
(* integer bit-field is TruncDiv(100 * t + delta, 100).                    *)
(***************************************************************************)
EXTENDS Integers, Sequences, FiniteSets, TLC

\* ------------------------------------------------------------------ bounds
\* Grid size of the model (200 x 150 in the program, main.cpp:6-7).
WIDTH == 3
HEIGHT == 3
\* How many update() calls and paint strokes one behaviour makes.
MaxSteps == 2
MaxPaints == 1
\* Largest brush radius the size hotkey is allowed to reach.
MaxBrush == 2
\* How far outside the window the mouse is taken (in cells).
Margin == 1
\* frameCounter values of the main loop are kept in 0 .. MaxFrame.
MaxFrame == 1
\* update() calls of one behaviour of the scheduler specification.
MaxTicks == 5
\* update() calls of one behaviour that leaves painted Fire alone.
MaxFireTicks == 96
\* strokes and update() calls of one behaviour that mixes materials.
MaxMixPaints == 2
MaxMixSteps == 9
\* Electricity cells of a grid whose behaviours are followed further.
MaxSparks == 1
\* the strokes and the update() calls followed when the edges are exercised
MaxEdgePaints == 1
MaxEdgeSteps == 2
\* update() calls followed after strokes that put Sand among other materials
MaxSandSteps == 2
\* update() calls of one behaviour that leaves one settled Sand cell alone
MaxTimerTicks == 258
\* update() calls of one behaviour that watches the throttle of settled Sand
MaxThrottleTicks == 302

\* ------------------------------------------------------- program constants
TEMP_MAX == 3000
TEMP_MIN == -273
CURRENT_TYPE_AMOUNT == 13
\* updateFire: maxLife of a parent / spawned cell, and the n of its rand() % n
FIRE_PARENT_LIFE == 90
FIRE_SPAWN_LIFE == 40
FIRE_LIFE_SLACK == 5
\* updateElectricity: the lifetime at which the cell is cleared
ELECTRICITY_LIFE == 8

EMPTY == 0
SAND == 1
WATER == 2
STONE == 3
FIRE == 4
OIL == 5
WOOD == 6
STEAM == 7
SMOKE == 8
ELECTRICITY == 9
GLASS == 10
LAVA == 11
COLD == 12

SOLID == 0
LIQUID == 1
GAS == 2
OTHERCAT == 3

\* cellProperties, main.cpp:194-209: <<temperature, density, canFall, thermalConductivity>>
cellProperties ==
    [t \in 0 .. (CURRENT_TYPE_AMOUNT - 1) |->
        CASE t = EMPTY       -> [temperature |-> 20,   density |-> 0, canFall |-> FALSE, thermalConductivity |-> 0]
          [] t = SAND        -> [temperature |-> 20,   density |-> 2, canFall |-> TRUE,  thermalConductivity |-> 0]
          [] t = WATER       -> [temperature |-> 20,   density |-> 1, canFall |-> TRUE,  thermalConductivity |-> 0]
          [] t = STONE       -> [temperature |-> 20,   density |-> 3, canFall |-> FALSE, thermalConductivity |-> 0]
          [] t = FIRE        -> [temperature |-> 1000, density |-> 0, canFall |-> TRUE,  thermalConductivity |-> 0]
          [] t = OIL         -> [temperature |-> 20,   density |-> 1, canFall |-> TRUE,  thermalConductivity |-> 0]
          [] t = WOOD        -> [temperature |-> 20,   density |-> 1, canFall |-> FALSE, thermalConductivity |-> 0]
          [] t = STEAM       -> [temperature |-> 100,  density |-> 0, canFall |-> TRUE,  thermalConductivity |-> 0]
          [] t = SMOKE       -> [temperature |-> 100,  density |-> 0, canFall |-> TRUE,  thermalConductivity |-> 0]
          [] t = ELECTRICITY -> [temperature |-> 3000, density |-> 0, canFall |-> FALSE, thermalConductivity |-> 0]
          [] t = GLASS       -> [temperature |-> 1700, density |-> 3, canFall |-> FALSE, thermalConductivity |-> 0]
          [] t = LAVA        -> [temperature |-> 1200, density |-> 3, canFall |-> FALSE, thermalConductivity |-> 0]
          [] OTHER           -> [temperature |-> -273, density |-> 0, canFall |-> FALSE, thermalConductivity |-> 0]]

\* The brushes the number keys select, main.cpp:634-665 (key 8 selects COLD).
Brushes == {SAND, WATER, STONE, FIRE, OIL, WOOD, STEAM, COLD, ELECTRICITY, EMPTY}

\* --------------------------------------------------------------- integers
TruncDiv(n, d) == IF n >= 0 THEN n \div d ELSE -((-n) \div d)

\* conversion of an int to int8_t (the density parameter of createCell)
Int8(v) == LET m == v % 256 IN IF m >= 128 THEN m - 256 ELSE m

\* store into the 13-bit signed temperature bit-field
Wrap13(v) == LET m == v % 8192 IN IF m >= 4096 THEN m - 8192 ELSE m

\* ++ on the uint8_t lastUpdate
IncU8(v) == (v + 1) % 256

Clamp(v, lo, hi) == IF v < lo THEN lo ELSE IF v > hi THEN hi ELSE v

Isqrt(n) == CHOOSE r \in 0 .. n : r * r <= n /\ (r + 1) * (r + 1) > n

\* ------------------------------------------------------------- cell codec
\* members of the CellData union, as slices of the data byte
solidCanFall(c) == c.data % 2
liquidDensity(c) == c.data % 16
gasLifetime(c) == c.data
otherParentCell(c) == c.data % 2
otherLifetime(c) == c.data \div 16

\* c.data.other.lifetime = v (a 4-bit field in the high nibble)
setOtherLifetime(c, v) == [c EXCEPT !.data = (c.data % 16) + 16 * (v % 16)]

getCategoryFromType(type) ==
    CASE type \in {SAND, STONE, WOOD, GLASS} -> SOLID
      [] type \in {WATER, OIL, LAVA} -> LIQUID
      [] type \in {STEAM, SMOKE} -> GAS
      [] OTHER -> OTHERCAT

getCanFall(c) == IF c.category = 0 THEN solidCanFall(c) = 1 ELSE FALSE

\* (int)(density / 4.0f) for liquids
getDensity(c) == IF c.category = 1 THEN liquidDensity(c) \div 4 ELSE 0

isParentCell(c) == IF c.category = 3 THEN otherParentCell(c) = 1 ELSE FALSE

getLifetime(c) ==
    CASE c.category = 2 -> gasLifetime(c)
      [] c.category = 3 -> otherLifetime(c)
      [] OTHER -> 0

\* what createCell can return when type is no CellType and assert is
\* compiled out: getCategoryFromType then flows off its end, so the category
\* (and with it the branch that fills the data union) is anything
strayCells(type, temperature) ==
    {[type |-> type % 16, flags |-> 0, lastUpdate |-> 0,
      temperature |-> ((temperature + 4096) % 8192) - 4096, category |-> cat,
      thermalConductivity |-> 0, data |-> 0, age |-> 0] : cat \in {-4, -1, 0, 1, 2, 3}}

\* the assertions at the head of createCell
createCellAsserts(type, temperature, density) ==
    /\ type < CURRENT_TYPE_AMOUNT
    /\ temperature >= TEMP_MIN /\ temperature <= TEMP_MAX
    /\ density >= 0 /\ density <= 15

\* createCell(type, temperature, density, canFall); density arrives as int8_t
\* the record carries one field the program does not have: age, the number of
\* update() calls that have started since the cell was created (bookkeeping,
\* kept for Electricity cells)
createCell(type, temperature, density, canFall) ==
    LET cat == getCategoryFromType(type)
    IN [type |-> type,
        flags |-> 0,
        lastUpdate |-> 0,
        temperature |-> Wrap13(temperature),
        category |-> cat,
        thermalConductivity |-> cellProperties[type].thermalConductivity,
        data |-> CASE cat = SOLID -> (IF canFall THEN 1 ELSE 0)
                   [] cat = LIQUID -> density % 16
                   [] cat = GAS -> 0
                   [] OTHER -> 0,
        age |-> 0]

\* ------------------------------------------------------------- grid store
Xs == 0 .. (WIDTH - 1)
Ys == 0 .. (HEIGHT - 1)

\* the indices the arrays have: std::array<std::array<Cell, WIDTH>, HEIGHT>
onGrid(x, y) == x \in Xs /\ y \in Ys

(***************************************************************************)
(* A simulation state s threaded through one update():                     *)
(*   cur, nxt  the arrays *currentGrid and *nextGrid, indexed [y][x]       *)
(*   fc        the global frameCounter                                     *)
(*   moved     bookkeeping, not program state: moved[y][x] counts the      *)
(*             swaps undergone during this update() by the cell that now   *)
(*             sits at (x, y) of cur                                       *)
(*   most      bookkeeping: the largest such count of a non-Empty cell     *)
(*   again     bookkeeping: a non-Empty cell that had already been         *)
(*             relocated in this update() was selected for update again    *)
(*   conv      bookkeeping: the behaviour run for the position being       *)
(*             visited retagged its next-buffer cell (a phase transition)  *)
(*   lagged    bookkeeping: some behaviour took its threshold decision     *)
(*             differently from what the temperature radiateHeat had just  *)
(*             written for that cell calls for                             *)
(*   ndebug    the build: TRUE when assert() is compiled out               *)
(*   abort     an assert() failed (the process is gone)                    *)
(*   tried     bookkeeping: the positions whose Sand cell updateSand let   *)
(*             through its throttle, on to fall(), during this update()    *)
(*   visits    bookkeeping: how often this update() selected each position *)
(*   born      bookkeeping: the positions updateElectricity wrote a child  *)
(*             into during this update()                                   *)
(*   wild      bookkeeping: an array was indexed with an x outside         *)
(*             [0, WIDTH) or a y outside [0, HEIGHT).  What such an access *)
(*             reads or overwrites is not followed: the read yields        *)
(*             WildCell and the store is dropped                           *)
(***************************************************************************)
WildCell == [type |-> -1, flags |-> 0, lastUpdate |-> 0, temperature |-> 0,
             category |-> 0, thermalConductivity |-> 0, data |-> 0, age |-> 0]

\* inBounds with the upper limits included
inBoundsInclusive(x, y) == x >= 0 /\ x <= WIDTH /\ y >= 0 /\ y <= HEIGHT

inBounds(x, y) == x >= 0 /\ x < WIDTH /\ y >= 0 /\ y < HEIGHT

\* g[y][x]
cellAt(g, x, y) == IF onGrid(x, y) THEN g[y][x] ELSE WildCell

\* s after an access to [y][x] of one of the arrays
touch(s, x, y) == IF onGrid(x, y) THEN s ELSE [s EXCEPT !.wild = TRUE]

\* s after the accesses that the inBounds tests of a behaviour let through,
\* out of the positions P it tests
probe(s, P) ==
    IF \E p \in P : inBounds(p[1], p[2]) /\ ~onGrid(p[1], p[2])
    THEN [s EXCEPT !.wild = TRUE] ELSE s

read(s, x, y) == cellAt(s.cur, x, y)

\* the array g with g[y][x] replaced
put(g, x, y, cell) ==
    IF onGrid(x, y) THEN [g EXCEPT ![y] = [g[y] EXCEPT ![x] = cell]] ELSE g

write(s, x, y, cell) == [touch(s, x, y) EXCEPT !.nxt = put(s.nxt, x, y, cell)]

\* cell.lastUpdate++ through the reference read() returned, then
\* (*nextGrid)[y][x] = cell
bumpAndStore(s, x, y) ==
    LET cell == [read(s, x, y) EXCEPT !.lastUpdate = IncU8(@)]
    IN [touch(s, x, y) EXCEPT !.cur = put(s.cur, x, y, cell), !.nxt = put(s.nxt, x, y, cell)]

\* swapCells without the std::swap in the current buffer: only the next
\* buffer receives the exchanged cells
swapCellsNextOnly(s, x1, y1, x2, y2) ==
    LET a == read(s, x1, y1)
        b == read(s, x2, y2)
    IN [touch(touch(s, x1, y1), x2, y2)
          EXCEPT !.nxt = put(put(s.nxt, x1, y1, [b EXCEPT !.lastUpdate = 0]),
                             x2, y2, [a EXCEPT !.lastUpdate = 0])]

swapCells(s, x1, y1, x2, y2) ==
    LET a == read(s, x1, y1)
        b == read(s, x2, y2)
        was(x, y) == IF onGrid(x, y) THEN s.moved[y][x] ELSE 0
        ma == IF a.type # EMPTY THEN was(x1, y1) + 1 ELSE 0
        mb == IF b.type # EMPTY THEN was(x2, y2) + 1 ELSE 0
        hi == IF ma >= mb THEN ma ELSE mb
    IN [touch(touch(s, x1, y1), x2, y2) EXCEPT !.cur = put(put(s.cur, x1, y1, b), x2, y2, a),
                 !.nxt = put(put(s.nxt, x1, y1, [b EXCEPT !.lastUpdate = 0]),
                             x2, y2, [a EXCEPT !.lastUpdate = 0]),
                 !.moved = put(put(s.moved, x1, y1, mb), x2, y2, ma),
                 !.most = IF hi > s.most THEN hi ELSE s.most]

\* clearCells(x, y, temp): the float temp is stored back into the bit-field
clearCells(s, x, y, temp) ==
    LET c == [createCell(EMPTY, 0, 0, FALSE) EXCEPT !.temperature = Wrap13(temp)]
    IN [touch(s, x, y) EXCEPT !.cur = put(s.cur, x, y, c), !.nxt = put(s.nxt, x, y, c),
                 !.moved = put(s.moved, x, y, 0)]

\* --------------------------------------------------- movement primitives
\* the first index i of opts (1-based) whose target is in bounds and Empty, or 0
fallPick(s, x, y, opts) ==
    LET ok(k) == inBounds(x + opts[k], y + 1) /\ read(s, x + opts[k], y + 1).type = EMPTY
        hits == {k \in 1 .. Len(opts) : ok(k)}
    IN IF hits = {} THEN 0 ELSE CHOOSE k \in hits : \A j \in hits : k <= j

\* fall under one outcome of the shuffle of the two diagonals
fallWith(s, x, y, opts) ==
    LET cell == read(s, x, y)
        k == fallPick(s, x, y, opts)
        s0 == probe(s, {<<x + opts[j], y + 1>> : j \in 1 .. Len(opts)})
    IN IF solidCanFall(cell) = 0 THEN write(s, x, y, cell)
       ELSE IF k # 0 THEN swapCells(s0, x, y, x + opts[k], y + 1)
       ELSE bumpAndStore(s0, x, y)

\* fall without the shuffle: down, down-left, down-right in this order
fallLeftFirst(s, x, y) == {fallWith(s, x, y, <<0, -1, 1>>)}

fall(s, x, y) == {fallWith(s, x, y, opts) : opts \in {<<0, -1, 1>>, <<0, 1, -1>>}}

\* may the liquid at (x, y) exchange with the cell at (tx, ty)?  (flow's test)
flowInto(s, x, y, tx, ty) ==
    \/ read(s, tx, ty).type = EMPTY
    \/ liquidDensity(read(s, tx, ty)) < liquidDensity(read(s, x, y))

\* the distance flow's inner loop stops at in direction dir on row y + dy, or 0:
\* out-of-bounds targets are skipped, a blocked diagonal ends the search
flowReach(s, x, y, dy, dir) ==
    LET inb(d) == inBounds(x + d * dir, y + dy)
        hit(d) == inb(d) /\ flowInto(s, x, y, x + d * dir, y + dy)
        blocked(d) == dy = 1 /\ inb(d) /\ ~hit(d)
        cand == {d \in 1 .. 5 : hit(d) /\ \A e \in 1 .. (d - 1) : ~blocked(e)}
    IN IF cand = {} THEN 0 ELSE CHOOSE d \in cand : \A e \in cand : d <= e

\* flow under one outcome of the two shuffles (dirs1 for dy = 1, dirs0 for dy = 0)
flowWith(s, x, y, dirs1, dirs0) ==
    LET tries == << <<1, dirs1[1]>>, <<1, dirs1[2]>>, <<0, dirs0[1]>>, <<0, dirs0[2]>> >>
        reach(i) == flowReach(s, x, y, tries[i][1], tries[i][2])
        hits == {i \in 1 .. 4 : reach(i) # 0}
        i0 == CHOOSE i \in hits : \A j \in hits : i <= j
        s0 == probe(s, {<<x + d, y + dy>> : d \in -5 .. 5, dy \in 0 .. 1})
    IN IF inBounds(x, y + 1) /\ flowInto(s, x, y, x, y + 1)
         THEN swapCells(s0, x, y, x, y + 1)
       ELSE IF hits # {}
         THEN swapCells(s0, x, y, x + reach(i0) * tries[i0][2], y + tries[i0][1])
       ELSE bumpAndStore(s0, x, y)

flow(s, x, y) ==
    {flowWith(s, x, y, d1, d0) : d1 \in {<<-1, 1>>, <<1, -1>>}, d0 \in {<<-1, 1>>, <<1, -1>>}}

rise(s, x, y) ==
    LET s0 == probe(s, {<<x + d, y - 1>> : d \in -1 .. 1})
    IN IF ~inBounds(x, y - 1) THEN s
       ELSE IF read(s, x, y - 1).type = EMPTY THEN swapCells(s0, x, y, x, y - 1)
       ELSE IF inBounds(x - 1, y - 1) /\ read(s, x - 1, y - 1).type = EMPTY
         THEN swapCells(s0, x, y, x - 1, y - 1)
       ELSE IF inBounds(x + 1, y - 1) /\ read(s, x + 1, y - 1).type = EMPTY
         THEN swapCells(s0, x, y, x + 1, y - 1)
       ELSE bumpAndStore(s0, x, y)

\* ------------------------------------------------------ thermal diffusion
Neighbours(x, y) ==
    {p \in {<<x + dx, y + dy>> : dx \in -1 .. 1, dy \in -1 .. 1} :
        p # <<x, y>> /\ inBounds(p[1], p[2])}

RECURSIVE SumOver(_, _)
SumOver(f, S) ==
    IF S = {} THEN 0 ELSE LET p == CHOOSE q \in S : TRUE IN f[p] + SumOver(f, S \ {p})

\* temperature += v / 100 on the bit-field, then std::clamp
addHeat(t, hundredths) ==
    Clamp(Wrap13(TruncDiv(100 * t + hundredths, 100)), TEMP_MIN, TEMP_MAX)

\* (*nextGrid)[ny][nx].temperature += diff, clamped, for every neighbour in N
RECURSIVE heatNeighbours(_, _, _)
heatNeighbours(g, diff, N) ==
    IF N = {} THEN g
    ELSE LET p == CHOOSE q \in N : TRUE
             c == cellAt(g, p[1], p[2])
         IN heatNeighbours(put(g, p[1], p[2],
                               [c EXCEPT !.temperature = addHeat(@, diff[p])]),
                           diff, N \ {p})

radiateHeat(s, x, y) ==
    LET selfTemp == read(s, x, y).temperature
        N == Neighbours(x, y)
        \* diff of the loop body, in hundredths (|diff| < 0.001 only for 0)
        diff == [p \in N |-> selfTemp - read(s, p[1], p[2]).temperature]
        netDelta == 0 - SumOver(diff, N)
        newCell == [read(s, x, y) EXCEPT !.temperature = addHeat(@, netDelta)]
    IN [probe(touch(s, x, y), N) EXCEPT
           !.nxt = put(heatNeighbours(s.nxt, diff, N), x, y, newCell)]

\* ----------------------------------------------------- material behaviours
\* the values rand() % n can take
RandMod(n) == 0 .. (n - 1)

\* (*nextGrid)[y][x].type = t : only the tag of the next-buffer cell changes
setNextType(s, x, y, t) ==
    [touch(s, x, y) EXCEPT !.nxt = put(s.nxt, x, y, [cellAt(s.nxt, x, y) EXCEPT !.type = t]),
                           !.conv = TRUE]

updateSand(s, x, y) ==
    LET cell == read(s, x, y)
    IN IF cell.lastUpdate >= 300 /\ s.fc % 90 # 0 THEN {bumpAndStore(s, x, y)}
       ELSE IF cell.lastUpdate < 300 /\ cell.lastUpdate >= 60 /\ s.fc % 30 # 0
         THEN {bumpAndStore(s, x, y)}
       ELSE LET s0 == [s EXCEPT !.tried = @ \cup {<<x, y>>}]
            IN fall(IF cell.temperature >= 1700 THEN setNextType(s0, x, y, GLASS) ELSE s0,
                    x, y)

updateWater(s, x, y) ==
    LET cell == read(s, x, y)
    IN IF cell.lastUpdate >= 60 /\ s.fc % 10 # 0 THEN {bumpAndStore(s, x, y)}
       ELSE flow(IF cell.temperature >= 100 THEN setNextType(s, x, y, STEAM) ELSE s, x, y)

fireNeighbors(s, x, y) ==
    Cardinality({p \in Neighbours(x, y) : read(s, p[1], p[2]).type = FIRE})

\* the cells updateFire's spread loop aims at: 1 or 2 rows up, dx in -1 .. 1
fireTargets(x, y) ==
    {q \in {<<x + dx, y - i>> : dx \in -1 .. 1, i \in 1 .. 2} : inBounds(q[1], q[2])}

\* updateFire with the overcrowding test dropped: the spread loop goes on to
\* write a Fire child into an Empty target whatever the neighbour count is
updateFireCrowdedSpreads(s, x, y) ==
    LET cell == read(s, x, y)
        open == {q \in fireTargets(x, y) : read(s, q[1], q[2]).type = EMPTY}
        child == setOtherLifetime(createCell(FIRE, 0, 0, FALSE), otherLifetime(cell) + 1)
    IN {write(s, x, y, cell)}
       \cup {write(write(s, q[1], q[2], child), x, y, cell) : q \in open}

(***************************************************************************)
(* updateFire, main.cpp:837-900.  Line 874 reads                           *)
(*     if (fireNeighbors >= 6) clearCells(x, y); return;                   *)
(* so the return is taken in the first iteration of the spread loop        *)
(* whatever the count is: the rest of the loop body and the final write    *)
(* are never executed.  maxSpreadHeight = 1 + r % 2 is at least 1, so the  *)
(* loop body is always entered once.                                       *)
(***************************************************************************)
updateFire(s, x, y) ==
    LET cell == read(s, x, y)
        lifetime == otherLifetime(cell)
        maxLife == IF otherParentCell(cell) = 1 THEN FIRE_PARENT_LIFE ELSE FIRE_SPAWN_LIFE
        dies == {lifetime >= maxLife + j : j \in RandMod(FIRE_LIFE_SLACK)}
        \* (r % 100) > 80 || lifetime > 40
        old == {r > 80 \/ lifetime > 40 : r \in RandMod(100)}
        \* (rand() % 100) > spreadChance * 100, spreadChance = 1 - lifetime / 50
        weak == {q > 100 - 2 * lifetime : q \in RandMod(100)}
        spread == IF fireNeighbors(s, x, y) >= 6 THEN clearCells(s, x, y, 0) ELSE s
    IN  (IF TRUE \in dies THEN {clearCells(s, x, y, cell.temperature)} ELSE {})
        \cup (IF FALSE \in dies /\ (TRUE \in old \/ TRUE \in weak) THEN {s} ELSE {})
        \cup (IF FALSE \in dies /\ FALSE \in old /\ FALSE \in weak THEN {spread} ELSE {})

updateOil(s, x, y) == {s}

updateSteam(s, x, y) ==
    {rise(IF read(s, x, y).temperature <= 100 THEN setNextType(s, x, y, WATER) ELSE s, x, y)}

updateSmoke(s, x, y) ==
    LET gone == {s.fc > 600 + j : j \in RandMod(100)}
    IN  (IF TRUE \in gone THEN {setNextType(s, x, y, EMPTY)} ELSE {})
        \cup (IF FALSE \in gone THEN {rise(s, x, y)} ELSE {})

\* the Electricity child written by updateElectricity, main.cpp:986-987
spawnElectricity(s, cell, nx, ny) ==
    IF ~s.ndebug /\ ~createCellAsserts(ELECTRICITY, 0, Int8(cell.temperature))
      THEN [s EXCEPT !.abort = TRUE]
    ELSE [write(s, nx, ny,
                setOtherLifetime(createCell(ELECTRICITY, 0, Int8(cell.temperature), FALSE),
                                 otherLifetime(cell) + 1))
          EXCEPT !.born = @ \cup {<<nx, ny>>}]

updateElectricity(s, x, y) ==
    LET \* cell.data.other.lifetime++ through the reference into the current buffer
        cell == setOtherLifetime(read(s, x, y), otherLifetime(read(s, x, y)) + 1)
        s1 == [s EXCEPT !.cur = put(s.cur, x, y, cell)]
        lifetime == otherLifetime(cell)
        E == {p \in Neighbours(x, y) : read(s1, p[1], p[2]).type = ELECTRICITY}
        neighborCount == Cardinality(E)
        totalDx == SumOver([p \in E |-> p[1] - x], E)
        totalDy == SumOver([p \in E |-> p[2] - y], E)
        lonely == neighborCount < 1 \/ neighborCount > 5
        \* (rand() % 100) >= (int)(spreadChance * 100), spreadChance = 1 - lifetime / 8
        stays == {q >= (800 - 100 * lifetime) \div 8 : q \in RandMod(100)}
        moveTo(a, b) ==
            LET finalDx == Clamp((0 - totalDx) + (a - 1), -1, 1)
                finalDy == Clamp((0 - totalDy) + (b - 1), -1, 1)
                nx == x + finalDx
                ny == y + finalDy
                s2 == IF (finalDx # 0 \/ finalDy # 0) /\ inBounds(nx, ny)
                         /\ read(s1, nx, ny).type = EMPTY
                      THEN spawnElectricity(s1, cell, nx, ny) ELSE s1
            IN IF s2.abort THEN s2 ELSE write(s2, x, y, cell)
    IN IF lifetime >= ELECTRICITY_LIFE THEN {clearCells(s1, x, y, cell.temperature)}
       ELSE (IF lonely THEN {clearCells(s1, x, y, cell.temperature)} ELSE {})
            \cup (IF TRUE \in stays THEN {write(s1, x, y, cell)} ELSE {})
            \cup (IF FALSE \in stays
                    THEN {moveTo(a, b) : a \in RandMod(3), b \in RandMod(3)} ELSE {})

updateGlass(s, x, y) == fall(s, x, y)

updateStone(s, x, y) ==
    fall(IF read(s, x, y).temperature >= 1205 THEN setNextType(s, x, y, LAVA) ELSE s, x, y)

updateWood(s, x, y) ==
    fall(IF read(s, x, y).temperature >= 300 THEN setNextType(s, x, y, FIRE) ELSE s, x, y)

updateLava(s, x, y) ==
    flow(IF read(s, x, y).temperature <= 1195 THEN setNextType(s, x, y, STONE) ELSE s, x, y)

updateCold(s, x, y) == {clearCells(s, x, y, read(s, x, y).temperature)}

\* the dispatch of updateCell; tags 13..15 take the default branch, which only logs
updateCell(s, x, y) ==
    LET t == read(s, x, y).type
    IN CASE t = SAND -> updateSand(s, x, y)
         [] t = WATER -> updateWater(s, x, y)
         [] t = STONE -> updateStone(s, x, y)
         [] t = WOOD -> updateWood(s, x, y)
         [] t = FIRE -> updateFire(s, x, y)
         [] t = OIL -> updateOil(s, x, y)
         [] t = STEAM -> updateSteam(s, x, y)
         [] t = SMOKE -> updateSmoke(s, x, y)
         [] t = ELECTRICITY -> updateElectricity(s, x, y)
         [] t = GLASS -> updateGlass(s, x, y)
         [] t = LAVA -> updateLava(s, x, y)
         [] t = COLD -> updateCold(s, x, y)
         [] OTHER -> {s}

\* --------------------------------------------------------------- scheduler
\* the i-th position (0-based) of the scan of UpdateWithChecker(mode, _)
scanPos(mode, i) ==
    LET r == i \div WIDTH
        c == i % WIDTH
    IN << IF mode \in {0, 2} THEN c ELSE WIDTH - 1 - c,
          IF mode \in {0, 1} THEN r ELSE HEIGHT - 1 - r >>

\* the phase-transition thresholds of the behaviours (spec section 4.6): does
\* a cell of this type at temperature temp change phase?
crosses(type, temp) ==
    CASE type = SAND -> temp >= 1700
      [] type = WATER -> temp >= 100
      [] type = STONE -> temp >= 1205
      [] type = WOOD -> temp >= 300
      [] type = LAVA -> temp <= 1195
      [] type = STEAM -> temp <= 100
      [] OTHER -> FALSE

\* does the behaviour of this cell reach its threshold comparison?
compares(c) ==
    /\ c.type \in {SAND, WATER, STONE, WOOD, LAVA, STEAM}
    /\ c.type \in {SAND, WATER} => c.lastUpdate < 60

\* radiateHeat(x, y); updateCell(x, y); for one selected position
visit(s, x, y) ==
    IF s.abort THEN {s}
    ELSE LET sv == [s EXCEPT !.visits = put(@, x, y, @[y][x] + 1)]
             s0 == IF s.moved[y][x] > 0 /\ read(s, x, y).type # EMPTY
                   THEN [sv EXCEPT !.again = TRUE] ELSE sv
             s1 == [radiateHeat(s0, x, y) EXCEPT !.conv = FALSE]
             c == read(s1, x, y)
             due == crosses(c.type, s1.nxt[y][x].temperature)
         IN {[t EXCEPT !.lagged = @ \/ (compares(c) /\ t.conv # due)] :
                t \in updateCell(s1, x, y)}

RECURSIVE scanFrom(_, _, _, _)
scanFrom(S, mode, odd, i) ==
    IF i = WIDTH * HEIGHT THEN S
    ELSE LET p == scanPos(mode, i)
         IN IF (p[1] % 2 = 1) = odd
            THEN scanFrom(UNION {visit(s, p[1], p[2]) : s \in S}, mode, odd, i + 1)
            ELSE scanFrom(S, mode, odd, i + 1)

UpdateWithChecker(S, mode, odd) == scanFrom(S, mode, odd, 0)

\* passesOf with the second pass of phase 1 run on the odd columns again
passesOfSameParity(af) ==
    CASE af = 0 -> << <<0, FALSE>>, <<1, TRUE>> >>
      [] af = 1 -> << <<1, TRUE>>, <<2, TRUE>> >>
      [] af = 2 -> << <<2, FALSE>>, <<3, TRUE>> >>
      [] af = 3 -> << <<3, TRUE>>, <<0, FALSE>> >>

\* the two passes update() makes in phase alternatingFrames
passesOf(af) ==
    CASE af = 0 -> << <<0, FALSE>>, <<1, TRUE>> >>
      [] af = 1 -> << <<1, TRUE>>, <<2, FALSE>> >>
      [] af = 2 -> << <<2, FALSE>>, <<3, TRUE>> >>
      [] af = 3 -> << <<3, TRUE>>, <<0, FALSE>> >>

nextPhase(af) == IF af = 3 THEN 0 ELSE af + 1

\* update() without its std::swap: the buffers keep their roles
keepGrids(s) == s

\* std::swap(currentGrid, nextGrid)
swapGrids(s) == [s EXCEPT !.cur = s.nxt, !.nxt = s.cur]

\* bookkeeping at the start of an update(): every Electricity cell is one
\* update() older
older(g) ==
    [y \in Ys |-> [x \in Xs |->
        IF g[y][x].type = ELECTRICITY THEN [g[y][x] EXCEPT !.age = @ + 1] ELSE g[y][x]]]

\* update(): the states one tick can end in
update(s, af) ==
    LET ps == passesOf(af)
        s0 == [s EXCEPT !.cur = older(s.cur), !.nxt = older(s.nxt)]
        S1 == UpdateWithChecker({s0}, ps[1][1], ps[1][2])
        S2 == UpdateWithChecker(S1, ps[2][1], ps[2][2])
    IN {IF t.abort THEN t ELSE swapGrids(t) : t \in S2}

\* ------------------------------------------------------------------ input
getCirclePoints(cx, cy, radius) ==
    LET dxLimit(dy) == Isqrt(IF radius * radius - dy * dy > 0
                             THEN radius * radius - dy * dy ELSE 0)
        R == (0 - radius) .. radius
    IN {<<cx + d[1], cy + d[2]>> :
          d \in {e \in R \X R : e[1] >= 0 - dxLimit(e[2]) /\ e[1] <= dxLimit(e[2])}}

\* the cell handleInput creates for a brush, main.cpp:570-573: createCell is
\* called as createCell(brush, base.density, base.temperature, base.canFall)
brushAsserts(brush) ==
    createCellAsserts(brush, cellProperties[brush].density,
                      Int8(cellProperties[brush].temperature))

brushCell(brush) ==
    createCell(brush, cellProperties[brush].density,
               Int8(cellProperties[brush].temperature), cellProperties[brush].canFall)

\* --------------------------------------------------------------- the state
VARIABLES
    currentGrid,       \* the array currentGrid points to, [y][x]
    nextGrid,          \* the array nextGrid points to
    alternatingFrames, \* scheduler phase
    frameCounter,      \* global frame counter of the main loop
    currentBrush,
    brushSize,
    PauseSim,
    ndebug,            \* the build: assert() compiled out
    aborted,           \* an assert() fired
    nSteps,            \* history: update() calls so far
    nPaints,           \* history: paint strokes so far
    lastOp,            \* history: the last operation and its arguments
    prevGrid,          \* history: *currentGrid before the last operation
    prevNext,          \* history: *nextGrid before the last operation
    passLog,           \* history: the <<mode, odd>> passes run so far
    maxMoves,          \* history: most swaps one non-Empty cell underwent in the last update()
    again,             \* history: the last update() re-selected a cell it had relocated
    lagged,            \* history: in the last update() a threshold decision ignored the
                       \*          temperature radiateHeat had just written for the cell
    lagDue,            \* main's lag >= TICK_TIME, as it stands while the simulation is paused
    wild,              \* history: a buffer was indexed outside [0, HEIGHT) x [0, WIDTH)
    born,              \* history: where the last update() wrote an Electricity child
    tried,             \* history: where the last update() let a Sand cell go on to fall()
    visits             \* history: how often the last update() selected each position

vars == <<currentGrid, nextGrid, alternatingFrames, frameCounter, currentBrush, brushSize,
          PauseSim, ndebug, aborted, nSteps, nPaints, lastOp, prevGrid, prevNext, passLog,
          maxMoves, again, lagged, lagDue, wild, born, tried, visits>>

EmptyCell == createCell(EMPTY, 0, 0, FALSE)

(***************************************************************************)
(* Simulation::Simulation writes the Empty cells with write(), that is     *)
(* into *nextGrid only.  *currentGrid (the member grid) is default         *)
(* initialised: lastUpdate and thermalConductivity get their member        *)
(* initialisers, every other field is indeterminate.  The model takes the  *)
(* indeterminate bytes from a few patterns: all cells alike (zero filled   *)
(* memory, or the 0xCD fill of a debug heap), with at most one cell        *)
(* holding other stale bytes.                                              *)
(***************************************************************************)
ZeroFill == [type |-> 0, flags |-> 0, lastUpdate |-> 0, temperature |-> 0,
             category |-> 0, thermalConductivity |-> 0, data |-> 0, age |-> 0]

\* bytes CD xx CD CD xx CD: type 0xD, flags 0xC, temperature 0x0DCD, category 110b
DebugFill == [type |-> 13, flags |-> 12, lastUpdate |-> 0, temperature |-> 3533,
              category |-> -2, thermalConductivity |-> 0, data |-> 205, age |-> 0]

FillCells == {ZeroFill, DebugFill}

StaleCells ==
    { [type |-> WATER, flags |-> 0, lastUpdate |-> 0, temperature |-> 150,
       category |-> LIQUID, thermalConductivity |-> 0, data |-> 1, age |-> 0] }

Uninitialised ==
    {[y \in Ys |-> [x \in Xs |-> f]] : f \in FillCells}
    \cup {[y \in Ys |-> [x \in Xs |-> IF <<x, y>> = p THEN c ELSE ZeroFill]] :
            p \in Xs \X Ys, c \in StaleCells}

NoOp == [op |-> "init", x |-> 0, y |-> 0, brush |-> EMPTY, size |-> 0]

Init ==
    /\ nextGrid = [y \in Ys |-> [x \in Xs |-> EmptyCell]]
    /\ currentGrid \in Uninitialised
    /\ alternatingFrames = 0
    /\ frameCounter = 0
    /\ currentBrush = SAND
    /\ brushSize = 1
    /\ PauseSim = FALSE
    /\ ndebug \in BOOLEAN
    /\ aborted = FALSE
    /\ nSteps = 0
    /\ nPaints = 0
    /\ lastOp = NoOp
    /\ prevGrid = currentGrid
    /\ prevNext = nextGrid
    /\ passLog = << >>
    /\ maxMoves = 0
    /\ again = FALSE
    /\ lagged = FALSE
    /\ lagDue = FALSE
    /\ wild = FALSE
    /\ born = {}
    /\ tried = {}
    /\ visits = [y \in Ys |-> [x \in Xs |-> 0]]

\* the threaded state at the start of an update()
simState ==
    [cur |-> currentGrid, nxt |-> nextGrid, fc |-> frameCounter, ndebug |-> ndebug,
     abort |-> FALSE, moved |-> [y \in Ys |-> [x \in Xs |-> 0]], most |-> 0,
     again |-> FALSE, conv |-> FALSE, lagged |-> FALSE, wild |-> FALSE,
     born |-> {}, tried |-> {}, visits |-> [y \in Ys |-> [x \in Xs |-> 0]]]


\* ---------------------------------------------------------------- actions
\* where the mouse can be, in cells (mouse / PIXEL_SIZE), window and margin
MouseXs == (0 - Margin) .. (WIDTH - 1 + Margin)
MouseYs == (0 - Margin) .. (HEIGHT - 1 + Margin)

\* the brush loop without its inBounds test: the store goes to the element
\* y * WIDTH + x of the array's storage when the array has such an element
paintedUnguarded(g, circle, brush) ==
    LET hit == {q[2] * WIDTH + q[1] : q \in circle}
    IN [y \in Ys |-> [x \in Xs |->
           IF y * WIDTH + x \in hit THEN brushCell(brush) ELSE g[y][x]]]

\* the grids after the brush loop of handleInput: each point of the circle
\* that is in bounds is written to *nextGrid and copied to *currentGrid
painted(g, circle, brush) ==
    [y \in Ys |-> [x \in Xs |->
        IF <<x, y>> \in circle /\ inBounds(x, y) THEN brushCell(brush) ELSE g[y][x]]]

\* handleInput with the left button down at cell (mx, my); at most n strokes
\* are followed
PaintWithin(mx, my, n) ==
    LET circle == getCirclePoints(mx, my, brushSize)
        pts == {p \in circle : inBounds(p[1], p[2])}
        fails == pts # {} /\ ~ndebug /\ ~brushAsserts(currentBrush)
    IN /\ ~aborted
       /\ nPaints < n
       /\ nPaints' = nPaints + 1
       /\ lastOp' = [op |-> "paint", x |-> mx, y |-> my, brush |-> currentBrush,
                     size |-> brushSize]
       /\ prevGrid' = currentGrid
       /\ prevNext' = nextGrid
       /\ aborted' = fails
       /\ currentGrid' = IF fails THEN currentGrid ELSE painted(currentGrid, circle, currentBrush)
       /\ nextGrid' = IF fails THEN nextGrid ELSE painted(nextGrid, circle, currentBrush)
       /\ wild' = (wild \/ \E q \in pts : ~onGrid(q[1], q[2]))
       /\ UNCHANGED <<alternatingFrames, frameCounter, currentBrush, brushSize, PauseSim,
                      ndebug, nSteps, passLog, maxMoves, again, lagged, lagDue,
                   born, tried, visits>>

Paint(mx, my) == PaintWithin(mx, my, MaxPaints)

\* the brush hotkeys of handleInput, while strokes are still to come
SelectWithin(b, n) ==
    /\ ~aborted
    /\ nPaints < n
    /\ b # currentBrush
    /\ currentBrush' = b
    /\ UNCHANGED <<currentGrid, nextGrid, alternatingFrames, frameCounter, brushSize,
                   PauseSim, ndebug, aborted, nSteps, nPaints, lastOp, prevGrid, prevNext,
                   passLog, maxMoves, again, lagged, lagDue, wild,
                   born, tried, visits>>

SelectBrush(b) == SelectWithin(b, MaxPaints)

BrushUp ==
    /\ ~aborted
    /\ nPaints < MaxPaints
    /\ brushSize < MaxBrush
    /\ brushSize' = brushSize + 1
    /\ UNCHANGED <<currentGrid, nextGrid, alternatingFrames, frameCounter, currentBrush,
                   PauseSim, ndebug, aborted, nSteps, nPaints, lastOp, prevGrid, prevNext,
                   passLog, maxMoves, again, lagged, lagDue, wild,
                   born, tried, visits>>

BrushDown ==
    /\ ~aborted
    /\ nPaints < MaxPaints
    /\ brushSize > 1
    /\ brushSize' = brushSize - 1
    /\ UNCHANGED <<currentGrid, nextGrid, alternatingFrames, frameCounter, currentBrush,
                   PauseSim, ndebug, aborted, nSteps, nPaints, lastOp, prevGrid, prevNext,
                   passLog, maxMoves, again, lagged, lagDue, wild,
                   born, tried, visits>>

\* the space key.  main adds the elapsed time to lag only while the
\* simulation is not paused, and handleInput runs after that: when the key
\* pauses the simulation, lag may or may not have reached TICK_TIME, and it
\* keeps that value for as long as the pause lasts
TogglePause ==
    /\ ~aborted
    /\ PauseSim' = ~PauseSim
    /\ lagDue' \in (IF PauseSim THEN {FALSE} ELSE BOOLEAN)
    /\ UNCHANGED <<currentGrid, nextGrid, alternatingFrames, frameCounter, currentBrush,
                   brushSize, ndebug, aborted, nSteps, nPaints, lastOp, prevGrid, prevNext,
                   passLog, maxMoves, again, lagged, wild,
                   born, tried, visits>>

\* what one update() does to the program state and to the per-tick history
Advance ==
    /\ ~aborted
    /\ ~PauseSim
    /\ \E t \in update(simState, alternatingFrames) :
          /\ currentGrid' = t.cur
          /\ nextGrid' = t.nxt
          /\ aborted' = t.abort
          /\ maxMoves' = t.most
          /\ again' = t.again
          /\ lagged' = t.lagged
          /\ wild' = (wild \/ t.wild)
          /\ born' = t.born
          /\ tried' = t.tried
          /\ visits' = t.visits
    /\ alternatingFrames' = nextPhase(alternatingFrames)
    /\ lastOp' = [op |-> "step", x |-> 0, y |-> 0, brush |-> EMPTY, size |-> 0]
    /\ prevGrid' = currentGrid
    /\ prevNext' = nextGrid
    /\ UNCHANGED <<frameCounter, currentBrush, brushSize, PauseSim, ndebug, nPaints, lagDue>>

\* update(), called by the main loop when lag >= TICK_TIME and not paused;
\* at most n calls are followed
StepWithin(n) ==
    /\ nSteps < n
    /\ Advance
    /\ nSteps' = nSteps + 1
    /\ passLog' = passLog \o passesOf(alternatingFrames)

Step == StepWithin(MaxSteps)

LongStep == StepWithin(MaxTicks)

\* main loop, lag >= TICK_TIME while paused: sim->swapGrids()
PausedSwap ==
    /\ ~aborted
    /\ PauseSim
    /\ lagDue
    /\ currentGrid' = nextGrid
    /\ nextGrid' = currentGrid
    /\ lastOp' = [op |-> "swap", x |-> 0, y |-> 0, brush |-> EMPTY, size |-> 0]
    /\ prevGrid' = currentGrid
    /\ prevNext' = nextGrid
    /\ UNCHANGED <<alternatingFrames, frameCounter, currentBrush, brushSize, PauseSim,
                   ndebug, aborted, nSteps, nPaints, passLog, maxMoves, again, lagged, lagDue,
                   wild,
                   born, tried, visits>>

\* end of a main loop iteration: frameCounter is reset by the FPS report or
\* not, then incremented
Frame ==
    /\ ~aborted
    /\ \E v \in {frameCounter + 1, 1} : v <= MaxFrame /\ v # frameCounter /\ frameCounter' = v
    /\ UNCHANGED <<currentGrid, nextGrid, alternatingFrames, currentBrush, brushSize,
                   PauseSim, ndebug, aborted, nSteps, nPaints, lastOp, prevGrid, prevNext,
                   passLog, maxMoves, again, lagged, lagDue, wild,
                   born, tried, visits>>

Next ==
    \/ \E mx \in MouseXs, my \in MouseYs : Paint(mx, my)
    \/ \E b \in Brushes : SelectBrush(b)
    \/ BrushUp
    \/ BrushDown
    \/ Step

\* painting and stepping
Spec == Init /\ [][Next]_vars

\* the scheduler alone: update() after update() on what the constructor left
NextSched == LongStep

SpecSched == Init /\ [][NextSched]_vars

\* Fire left alone: Fire is painted before the first update() and the main
\* loop then calls update() again and again
PaintFire(mx, my) == currentBrush = FIRE /\ nSteps = 0 /\ Paint(mx, my)

FireStep == StepWithin(MaxFireTicks)

NextFire ==
    \/ SelectBrush(FIRE)
    \/ BrushUp
    \/ \E mx \in MouseXs, my \in MouseYs : PaintFire(mx, my)
    \/ FireStep

\* the constructed states whose current buffer came from zero-filled memory
InitZero == Init /\ \A y \in Ys : \A x \in Xs : currentGrid[y][x] = ZeroFill

SpecFire == InitZero /\ [][NextFire]_vars

\* materials side by side: up to MaxMixPaints strokes of Water, Electricity
\* and Cold on the constructed grid, then update() after update()
MixBrushes == {WATER, ELECTRICITY, COLD}

MixSelect(b) == nSteps = 0 /\ SelectWithin(b, MaxMixPaints)

MixPaint(mx, my) ==
    nSteps = 0 /\ currentBrush \in MixBrushes /\ PaintWithin(mx, my, MaxMixPaints)

\* the Electricity cells of the committed grid
sparks == {p \in Xs \X Ys : currentGrid[p[2]][p[1]].type = ELECTRICITY}

\* update() is followed while at most MaxSparks Electricity cells are there
MixStep == Cardinality(sparks) <= MaxSparks /\ StepWithin(MaxMixSteps)

\* the mouse just outside the window, where a stroke of size 1 sets one cell
MixMouse ==
    {m \in MouseXs \X MouseYs :
        Cardinality({q \in getCirclePoints(m[1], m[2], 1) : inBounds(q[1], q[2])}) = 1}

NextMix ==
    \/ \E b \in MixBrushes : MixSelect(b)
    \/ \E m \in MixMouse : MixPaint(m[1], m[2])
    \/ MixStep

SpecMix == InitZero /\ [][NextMix]_vars

\* draw() with debugText on, in the frame of an update(): drawDebugText reads
\* the cell under the mouse and loads its font, which fails an assert when
\* the file is not there
DebugRead(mx, my) ==
    /\ ~aborted
    /\ lastOp.op = "step"
    /\ inBounds(mx, my)
    /\ lastOp' = [op |-> "debug", x |-> mx, y |-> my, brush |-> EMPTY, size |-> 0]
    /\ wild' = (wild \/ ~onGrid(mx, my))
    /\ \E font \in BOOLEAN : aborted' = (~font /\ ~ndebug)
    /\ prevGrid' = currentGrid
    /\ prevNext' = nextGrid
    /\ UNCHANGED <<currentGrid, nextGrid, alternatingFrames, frameCounter, currentBrush,
                   brushSize, PauseSim, ndebug, nSteps, nPaints, passLog, maxMoves, again,
                   lagged, lagDue,
                   born, tried, visits>>

\* the edges of the grid: strokes around and across them, update(), and the
\* debug read
EdgeBrushes == {SAND, WATER, STEAM, ELECTRICITY}

EdgeSelect(b) == nSteps = 0 /\ SelectWithin(b, MaxEdgePaints)

EdgePaint(mx, my) == nSteps = 0 /\ PaintWithin(mx, my, MaxEdgePaints)

NextBounds ==
    \/ \E mx \in MouseXs, my \in MouseYs : EdgePaint(mx, my)
    \/ \E b \in EdgeBrushes : EdgeSelect(b)
    \/ BrushUp
    \/ StepWithin(MaxEdgeSteps)
    \/ \E mx \in MouseXs, my \in MouseYs : DebugRead(mx, my)

SpecBounds == InitZero /\ [][NextBounds]_vars

\* createCell on its own: write(0, 0, createCell(type, temperature, density,
\* canFall)) for arguments taken from around the limits its assertions name;
\* one call is followed
CellTypes == 0 .. CURRENT_TYPE_AMOUNT
CellTemperatures == {TEMP_MIN - 1, TEMP_MIN, 0, 20, TEMP_MAX, TEMP_MAX + 1, 5000}
CellDensities == {-1, 0, 4, 15, 16}

MakeCell(type, temperature, density, canFall) ==
    LET fails == ~ndebug /\ ~createCellAsserts(type, temperature, density)
        made == IF type < CURRENT_TYPE_AMOUNT
                THEN {createCell(type, temperature, density, canFall)}
                ELSE strayCells(type, temperature)
    IN /\ ~aborted
       /\ lastOp.op # "create"
       /\ lastOp' = [op |-> "create", x |-> 0, y |-> 0, brush |-> type, size |-> 0,
                     temperature |-> temperature, density |-> density, canFall |-> canFall]
       /\ aborted' = fails
       /\ prevGrid' = currentGrid
       /\ prevNext' = nextGrid
       /\ \E c \in made : nextGrid' = IF fails THEN nextGrid ELSE put(nextGrid, 0, 0, c)
       /\ UNCHANGED <<currentGrid, alternatingFrames, frameCounter, currentBrush, brushSize,
                      PauseSim, ndebug, nSteps, nPaints, passLog, maxMoves, again, lagged,
                      lagDue, wild,
                   born, tried, visits>>

NextCell ==
    \E type \in CellTypes, temperature \in CellTemperatures, density \in CellDensities,
       canFall \in BOOLEAN : MakeCell(type, temperature, density, canFall)

SpecCell == InitZero /\ [][NextCell]_vars

\* swapCells on its own, on a grid that strokes and an update() have made:
\* the cell at (x, y) is exchanged with the one below it, as the straight-down
\* moves of fall and flow do; one call is followed and the behaviour ends
SwapOnce(x, y) ==
    LET t == swapCells(simState, x, y, x, y + 1)
    IN /\ ~aborted
       /\ lastOp.op = "step"
       /\ inBounds(x, y + 1)
       /\ lastOp' = [op |-> "swapCells", x |-> x, y |-> y, brush |-> EMPTY, size |-> 0]
       /\ currentGrid' = t.cur
       /\ nextGrid' = t.nxt
       /\ prevGrid' = currentGrid
       /\ prevNext' = nextGrid
       /\ wild' = (wild \/ t.wild)
       /\ UNCHANGED <<alternatingFrames, frameCounter, currentBrush, brushSize, PauseSim,
                      ndebug, aborted, nSteps, nPaints, passLog, maxMoves, again, lagged,
                      lagDue, born, tried, visits>>

\* Sand that settles and Water that runs
SwapBrushes == {SAND, WATER}

SwapSelect(b) == nSteps = 0 /\ SelectWithin(b, MaxMixPaints)

SwapPaint(mx, my) == nSteps = 0 /\ PaintWithin(mx, my, MaxMixPaints)

SwapStep == lastOp.op # "swapCells" /\ StepWithin(MaxEdgeSteps)

NextSwap ==
    \/ \E b \in SwapBrushes : SwapSelect(b)
    \/ \E m \in MixMouse : SwapPaint(m[1], m[2])
    \/ SwapStep
    \/ \E x \in Xs, y \in Ys : SwapOnce(x, y)

SpecSwap == InitZero /\ [][NextSwap]_vars

\* fall, flow and rise on their own.  The behaviours call fall for Sand,
\* Stone, Wood and Glass, flow for Water and Lava, rise for Steam and Smoke;
\* the call is made for one position of a grid that strokes and update()
\* calls have made, and the behaviour ends with it
MoveBrushes == {SAND, STONE, WATER, STEAM}

MoveOps == {"fall", "flow", "rise"}

moveOf(type) ==
    CASE type \in {SAND, STONE, WOOD, GLASS} -> "fall"
      [] type \in {WATER, LAVA} -> "flow"
      [] type \in {STEAM, SMOKE} -> "rise"
      [] OTHER -> "none"

MoveSelect(b) == nSteps = 0 /\ lastOp.op \notin MoveOps /\ SelectWithin(b, MaxMixPaints)

\* the mouse just outside the window, or so far inside it that the whole
\* circle of a stroke of size 1 is on the grid
MoveMouse ==
    MixMouse \cup {m \in MouseXs \X MouseYs :
                     \A q \in getCirclePoints(m[1], m[2], 1) : inBounds(q[1], q[2])}

MovePaint(mx, my) ==
    nSteps = 0 /\ lastOp.op \notin MoveOps /\ PaintWithin(mx, my, MaxMixPaints)

MoveStep == lastOp.op \notin MoveOps /\ StepWithin(MaxEdgeSteps)

MoveOnce(x, y) ==
    LET op == moveOf(currentGrid[y][x].type)
        outcomes == CASE op = "fall" -> fall(simState, x, y)
                      [] op = "flow" -> flow(simState, x, y)
                      [] op = "rise" -> {rise(simState, x, y)}
                      [] OTHER -> {}
    IN /\ ~aborted
       /\ lastOp.op \notin MoveOps
       /\ lastOp' = [op |-> op, x |-> x, y |-> y, brush |-> EMPTY, size |-> 0]
       /\ \E t \in outcomes :
             /\ currentGrid' = t.cur
             /\ nextGrid' = t.nxt
             /\ wild' = (wild \/ t.wild)
       /\ prevGrid' = currentGrid
       /\ prevNext' = nextGrid
       /\ UNCHANGED <<alternatingFrames, frameCounter, currentBrush, brushSize, PauseSim,
                      ndebug, aborted, nSteps, nPaints, passLog, maxMoves, again, lagged,
                      lagDue, born, tried, visits>>

NextMove ==
    \/ \E b \in MoveBrushes : MoveSelect(b)
    \/ \E m \in MoveMouse : MovePaint(m[1], m[2])
    \/ MoveStep
    \/ \E x \in Xs, y \in Ys : MoveOnce(x, y)

SpecMove == InitZero /\ [][NextMove]_vars

\* Sand among the materials that spawn and clear: up to MaxMixPaints strokes
\* of Sand, Water, Fire, Electricity and Cold, then update() after update()
SandBrushes == {SAND, WATER, FIRE, ELECTRICITY, COLD}

SandSelect(b) == nSteps = 0 /\ SelectWithin(b, MaxMixPaints)

SandPaint(mx, my) ==
    nSteps = 0 /\ currentBrush \in SandBrushes /\ PaintWithin(mx, my, MaxMixPaints)

SandStep == StepWithin(MaxSandSteps)

NextSand ==
    \/ \E b \in SandBrushes : SandSelect(b)
    \/ \E m \in MoveMouse : SandPaint(m[1], m[2])
    \/ SandStep

SpecSand == InitZero /\ [][NextSand]_vars

\* one Sand cell left to settle: a stroke of the Sand brush that sets one
\* cell, then update() after update()
TimerPaint(mx, my) == nSteps = 0 /\ currentBrush = SAND /\ Paint(mx, my)

TimerStep == nPaints = 1 /\ StepWithin(MaxTimerTicks)

NextTimer ==
    \/ \E m \in MixMouse : TimerPaint(m[1], m[2])
    \/ TimerStep

SpecTimer == InitZero /\ [][NextTimer]_vars

\* the throttle of settled Sand: one Sand cell painted on the bottom row, the
\* main loop's frame counter, and update() after update()
BottomMouse == {m \in MixMouse : m[2] >= HEIGHT - 1}

ThrottlePaint(mx, my) == nSteps = 0 /\ currentBrush = SAND /\ Paint(mx, my)

ThrottleStep == nPaints = 1 /\ StepWithin(MaxThrottleTicks)

NextThrottle ==
    \/ \E m \in BottomMouse : ThrottlePaint(m[1], m[2])
    \/ nSteps = 0 /\ Frame
    \/ ThrottleStep

SpecThrottle == InitZero /\ [][NextThrottle]_vars

\* pausing: update() after update() on what the constructor left, the space
\* key, and the main loop's frames while paused
NextPause ==
    \/ TogglePause
    \/ PausedSwap
    \/ Step

SpecPause == Init /\ [][NextPause]_vars

\* ------------------------------------------------------------ properties
Positions == Xs \X Ys

\* the cell at position p = <<x, y>> of the array g
at(g, p) == g[p[2]][p[1]]

stepped == lastOp.op = "step" /\ ~aborted

count(g, P(_)) == Cardinality({p \in Positions : P(at(g, p))})

isHotWater(c) == c.type = WATER /\ c.temperature >= 100 /\ c.lastUpdate < 60
isCoolSteam(c) == c.type = STEAM /\ c.temperature <= 100
isWater(c) == c.type = WATER
isSteam(c) == c.type = STEAM

\* C1: in both buffers every cell's stored category is the category derived
\* from its stored material tag.
C1_CategoryMatchesMaterial ==
    \A p \in Positions :
        /\ at(currentGrid, p).category = getCategoryFromType(at(currentGrid, p).type)
        /\ at(nextGrid, p).category = getCategoryFromType(at(nextGrid, p).type)

\* C2: after a step() the committed grid holds a Steam cell for every Water
\* cell that was at or above 100 degrees when the step() ran.
C2_HotWaterBecomesSteam ==
    stepped => count(currentGrid, isSteam) >= count(prevGrid, isHotWater)

\* C3: after a step() the committed grid holds a Water cell for every Steam
\* cell that was at or below 100 degrees when the step() ran, risen or not.
C3_CoolSteamBecomesWater ==
    stepped => count(currentGrid, isWater) >= count(prevGrid, isCoolSteam)

\* the cell a paint of material m is specified to leave: m at its default
\* temperature with the density / can-fall value of the property table
freshCell(m) ==
    createCell(m, cellProperties[m].temperature, cellProperties[m].density,
               cellProperties[m].canFall)

\* C4: a paint stroke leaves, at every in-bounds point of the brush circle, a
\* freshly created cell of the brush material at its default temperature.
C4_PaintLeavesDefaultCell ==
    lastOp.op = "paint" =>
        \A p \in getCirclePoints(lastOp.x, lastOp.y, lastOp.size) :
            inBounds(p[1], p[2]) =>
                /\ ~aborted
                /\ at(currentGrid, p) = freshCell(lastOp.brush)

\* C5: right after construction every cell of both buffers is an Empty cell.
C5_ConstructedAllEmpty ==
    lastOp.op = "init" =>
        \A p \in Positions :
            at(currentGrid, p).type = EMPTY /\ at(nextGrid, p).type = EMPTY

\* C7: in one step() no cell that is not Empty is relocated by more than one
\* swap, and no relocated cell is selected for update again.
C7_AdvancedAtMostOnce ==
    stepped => maxMoves <= 1 /\ ~again

\* the grid g holds one can-fall Sand cell, at p, and Empty cells elsewhere
loneSand(g, p) ==
    /\ at(g, p).type = SAND
    /\ solidCanFall(at(g, p)) = 1
    /\ at(g, p).lastUpdate < 60
    /\ \A q \in Positions \ {p} : at(g, q).type = EMPTY

\* C8: a lone can-fall Sand cell above an Empty column is exactly one row
\* lower, in the same column, after each step().
C8_SandDescendsOneRowPerStep ==
    stepped =>
        \A p \in Positions :
            (loneSand(prevGrid, p) /\ p[2] + 1 < HEIGHT) =>
                loneSand(currentGrid, <<p[1], p[2] + 1>>)

\* C9: every behaviour takes its phase-transition decision on the temperature
\* that radiateHeat has just computed for the cell in the same tick.
C9_BehaviourSeesDiffusedTemperature ==
    stepped => ~lagged

\* the passes of the four step() calls that start with call number k + 1
window(k) == SubSeq(passLog, 2 * k + 1, 2 * k + 8)

uses(w, combo) == Cardinality({i \in 1 .. Len(w) : w[i] = combo})

Combos == (0 .. 3) \X BOOLEAN

\* C6 as claimed: over any 4 consecutive step() calls each of the 8
\* combinations of scan direction and column parity is used by exactly one pass.
C6_EveryComboOnce ==
    \A k \in 0 .. MaxTicks :
        k + 4 <= nSteps => \A c \in Combos : uses(window(k), c) = 1

\* C6 as amended: over any 4 consecutive step() calls the 8 passes use only
\* the 4 combinations that pair direction m with the parity of m (0 and 2 on
\* even columns, 1 and 3 on odd columns), each of them exactly twice.
C6_FourCombosTwice ==
    \A k \in 0 .. MaxTicks :
        k + 4 <= nSteps =>
            \A c \in Combos :
                uses(window(k), c) = (IF c[2] = (c[1] % 2 = 1) THEN 2 ELSE 0)

\* four consecutive step() calls have run, from a phase other than 0 as well
C6_Witness == nSteps >= 5 /\ Len(passLog) = 2 * nSteps

hasFire == \E p \in Positions : at(currentGrid, p).type = FIRE

\* C10: no Fire cell outlives its lifetime: Fire painted before the first
\* step() is gone from the committed grid once more step() calls have run than
\* the longest lifetime (that of a parent cell, plus its random slack) allows.
C10_FireDiesOut == nSteps > FIRE_PARENT_LIFE + FIRE_LIFE_SLACK => ~hasFire

\* a Fire cell of grid g at p that may spread: fewer than 6 Fire neighbours,
\* lifetime 0, and an Empty cell among its targets
crowded(g, p) ==
    Cardinality({q \in Neighbours(p[1], p[2]) : at(g, q).type = FIRE}) >= 6

emptyTargets(g, p) == {q \in fireTargets(p[1], p[2]) : at(g, q).type = EMPTY}

youngFire(g, p) ==
    /\ at(g, p).type = FIRE
    /\ otherLifetime(at(g, p)) = 0
    /\ ~crowded(g, p)
    /\ emptyTargets(g, p) # {}

\* C11: a young Fire cell with fewer than 6 Fire neighbours can spread: some
\* outcome of the next step() has a new Fire cell in one of the Empty cells 1
\* or 2 rows above it.
C11_FireCanSpread ==
    (~aborted /\ ~PauseSim) =>
        \A p \in Positions :
            youngFire(currentGrid, p) =>
                \E t \in update(simState, alternatingFrames) :
                    \E q \in emptyTargets(currentGrid, p) : at(t.cur, q).type = FIRE

\* C12: a Fire cell with 6 or more Fire neighbours creates no Fire cell in
\* that tick: after the step() none of the Empty cells it could spread to
\* holds Fire, in either buffer.
C12_CrowdedFireDoesNotSpread ==
    stepped =>
        \A p \in Positions :
            (at(prevGrid, p).type = FIRE /\ crowded(prevGrid, p)) =>
                \A q \in emptyTargets(prevGrid, p) :
                    at(currentGrid, q).type # FIRE /\ at(nextGrid, q).type # FIRE

\* a step() has run on a grid with a crowded Fire cell below an Empty target
C12_Witness ==
    /\ stepped
    /\ \E p \in Positions :
          /\ at(prevGrid, p).type = FIRE
          /\ crowded(prevGrid, p)
          /\ emptyTargets(prevGrid, p) # {}

isCold(c) == c.type = COLD
isElectricity(c) == c.type = ELECTRICITY

\* C13: every Electricity cell is cleared no later than the 8th step() after
\* it was created: the committed grid after a step() holds no Electricity
\* cell that has been through 8 or more step() calls.
C13_ElectricityGoneBy8 ==
    stepped =>
        \A p \in Positions :
            isElectricity(at(currentGrid, p)) => at(currentGrid, p).age < ELECTRICITY_LIFE

\* C14: every Cold cell on the grid at the start of a step() is gone at its
\* end: the committed grid after a step() holds no Cold cell.
C14_ColdClearedEachStep ==
    stepped => count(currentGrid, isCold) = 0

inRange(c) == c.temperature >= TEMP_MIN /\ c.temperature <= TEMP_MAX

\* C15: the temperature of every cell of both buffers lies in
\* [TEMP_MIN, TEMP_MAX], after construction and after every paint and step().
C15_TemperatureInRange ==
    \A p \in Positions : inRange(at(currentGrid, p)) /\ inRange(at(nextGrid, p))

\* the sum of the temperatures of grid g
totalHeat(g) == SumOver([p \in Positions |-> at(g, p).temperature], Positions)

isEmpty(c) == c.type = EMPTY
offBounds(c) == c.temperature > TEMP_MIN /\ c.temperature < TEMP_MAX

\* the last step() ran on a closed system: no cell at a clamp bound before
\* or after it, and no cell cleared by it
closedStep ==
    /\ stepped
    /\ \A p \in Positions : offBounds(at(prevGrid, p)) /\ offBounds(at(currentGrid, p))
    /\ count(currentGrid, isEmpty) <= count(prevGrid, isEmpty)

\* C16: a step() on a closed system leaves the sum of all temperatures of the
\* committed grid unchanged.
C16_HeatConserved ==
    closedStep => totalHeat(currentGrid) = totalHeat(prevGrid)

\* how many cells of grid g are at temperature v
tempCount(g, v) == Cardinality({p \in Positions : at(g, p).temperature = v})

\* grids g and h hold the same temperatures, each as often
sameTemps(g, h) ==
    \A p \in Positions :
        tempCount(g, at(g, p).temperature) = tempCount(h, at(g, p).temperature)

\* C17: every step() completes, makes exactly two scan passes and then swaps
\* the buffers once (the array that was current, whose temperatures the
\* passes only move about when no Fire is cleared for overcrowding, is the
\* next buffer afterwards), and the phase counter runs 0, 1, 2, 3, 0, ... and
\* takes no other value.
C17_TwoPassesOneSwap ==
    /\ alternatingFrames \in 0 .. 3
    /\ alternatingFrames = nSteps % 4
    /\ Len(passLog) = 2 * nSteps
    /\ lastOp.op = "step" => (~aborted /\ sameTemps(nextGrid, prevGrid))

\* step() calls have taken the phase counter round to 0 and on
C17_Witness == stepped /\ nSteps >= 5 /\ alternatingFrames = 1

\* C18: without a step() in between, the displayed buffer reads the same:
\* whatever the main loop last did other than a step() or a paint stroke left
\* the current grid as it was, also while the simulation is paused.
C18_DisplayStableWithoutStep ==
    lastOp.op \notin {"step", "paint"} => currentGrid = prevGrid

\* the cells of the grid that the last stroke's circle covers
strokeCells ==
    {p \in getCirclePoints(lastOp.x, lastOp.y, lastOp.size) : onGrid(p[1], p[2])}

\* C19: a stroke changes no cell outside its circle, in either buffer; a
\* stroke whose circle has no point on the grid (the mouse at (-1,-1) or at
\* (WIDTH,HEIGHT) with the brush of size 1) changes nothing and does not
\* fail; the points of a straddling circle that are on the grid get the
\* brush's cell unless the stroke aborted.
C19_PaintOutsideIsHarmless ==
    lastOp.op = "paint" =>
        /\ \A p \in (Xs \X Ys) \ strokeCells :
              at(currentGrid, p) = at(prevGrid, p) /\ at(nextGrid, p) = at(prevNext, p)
        /\ strokeCells = {} => ~aborted
        /\ ~aborted => \A p \in strokeCells :
              at(currentGrid, p) = brushCell(lastOp.brush)
              /\ at(nextGrid, p) = brushCell(lastOp.brush)

\* a stroke with the mouse at (-1,-1) and a brush large enough to straddle
\* the corner has changed the grid
C19_Witness ==
    /\ lastOp.op = "paint"
    /\ lastOp.x = -1 /\ lastOp.y = -1
    /\ strokeCells # {}
    /\ strokeCells # getCirclePoints(lastOp.x, lastOp.y, lastOp.size)
    /\ currentGrid # prevGrid
    /\ ~aborted

\* C20: no stroke, update() or debug read indexes an array outside
\* 0 <= x < WIDTH, 0 <= y < HEIGHT: every read, write, swapCells and
\* clearCells gets coordinates on the grid.
C20_NoAccessOutOfBounds == ~wild

\* the debug read on the rim of the grid after a stroke across the edge and
\* an update() in which a cell moved
C20_Witness ==
    /\ lastOp.op = "debug"
    /\ lastOp.x \in {0, WIDTH - 1}
    /\ lastOp.y \in {0, HEIGHT - 1}
    /\ nPaints >= 1
    /\ nSteps >= 1
    /\ maxMoves >= 1

\* the arguments createCell accepts, as the claim names them
validCell(type, temperature, density) ==
    /\ type \in EMPTY .. COLD
    /\ temperature \in TEMP_MIN .. TEMP_MAX
    /\ density \in 0 .. 15

\* C21: createCell fails fast and produces no cell when the material tag is
\* no defined material, the temperature is outside [-273, 3000] or the
\* density is outside [0, 15]; for valid arguments it returns a cell with
\* that material, that temperature, the derived category, lastUpdate 0 and
\* freshly initialised auxiliary data.
C21_CreateCellValidates ==
    lastOp.op = "create" =>
        LET c == nextGrid[0][0]
            cat == getCategoryFromType(lastOp.brush)
        IN IF validCell(lastOp.brush, lastOp.temperature, lastOp.density)
           THEN /\ ~aborted
                /\ c.type = lastOp.brush
                /\ c.temperature = lastOp.temperature
                /\ c.category = cat
                /\ c.lastUpdate = 0
                /\ c.flags = 0
                /\ c.data = (CASE cat = SOLID -> (IF lastOp.canFall THEN 1 ELSE 0)
                               [] cat = LIQUID -> lastOp.density
                               [] OTHER -> 0)
           ELSE aborted /\ nextGrid = prevNext

\* the same for a build that keeps its assertions
C21_HoldsWithAsserts == ~ndebug => C21_CreateCellValidates

\* C22: every createCell call the program makes itself (a stroke with any
\* brush, Fire spreading, Electricity spreading) meets createCell's
\* preconditions: no stroke and no update() ends in the failed assertion.
C22_OwnCallsAreValid ==
    lastOp.op \in {"paint", "step"} => ~aborted

\* C23: a cell written into the next buffer during a tick is there at the
\* commit: after an update(), every position an Electricity child was
\* spawned into holds Electricity in the current buffer, whether the scan
\* visits that position before or after the parent.
C23_SpawnedChildSurvives ==
    (lastOp.op = "step" /\ ~aborted) =>
        \A q \in born : at(currentGrid, q).type = ELECTRICITY

\* the same cell but for the settle counter
sameButTimer(c, d) == [c EXCEPT !.lastUpdate = 0] = [d EXCEPT !.lastUpdate = 0]

\* C24: right after swapCells(x1,y1,x2,y2) the two positions hold each
\* other's former cells in the current buffer, the next buffer holds the
\* same cells at the same two positions, each exchanged cell has
\* lastUpdate = 0, and no other position of either buffer has changed.
C24_SwapCellsEffect ==
    lastOp.op = "swapCells" =>
        LET p1 == <<lastOp.x, lastOp.y>>
            p2 == <<lastOp.x, lastOp.y + 1>>
        IN /\ sameButTimer(at(currentGrid, p1), at(prevGrid, p2))
           /\ sameButTimer(at(currentGrid, p2), at(prevGrid, p1))
           /\ sameButTimer(at(nextGrid, p1), at(currentGrid, p1))
           /\ sameButTimer(at(nextGrid, p2), at(currentGrid, p2))
           /\ \A p \in {p1, p2} :
                 at(currentGrid, p).lastUpdate = 0 /\ at(nextGrid, p).lastUpdate = 0
           /\ \A p \in (Xs \X Ys) \ {p1, p2} :
                 at(currentGrid, p) = at(prevGrid, p) /\ at(nextGrid, p) = at(prevNext, p)

\* C24 without the counter of the current buffer's copies
C24_NextBufferCopiesReset ==
    lastOp.op = "swapCells" =>
        LET p1 == <<lastOp.x, lastOp.y>>
            p2 == <<lastOp.x, lastOp.y + 1>>
        IN /\ at(currentGrid, p1) = at(prevGrid, p2)
           /\ at(currentGrid, p2) = at(prevGrid, p1)
           /\ \A p \in {p1, p2} : at(nextGrid, p) = [at(currentGrid, p) EXCEPT !.lastUpdate = 0]
           /\ \A p \in (Xs \X Ys) \ {p1, p2} :
                 at(currentGrid, p) = at(prevGrid, p) /\ at(nextGrid, p) = at(prevNext, p)

\* the position and the cell the last fall, flow or rise was called for
movedFrom == <<lastOp.x, lastOp.y>>
movedCell == at(prevGrid, movedFrom)

\* the cells of g on the grid at the offsets D from p
cellsAt(g, p, D) ==
    {at(g, <<p[1] + d[1], p[2] + d[2]>>) : d \in {e \in D : onGrid(p[1] + e[1], p[2] + e[2])}}

\* no target qualifies for the last call: fall wants the can-fall flag and an
\* Empty cell below or diagonally below, rise an Empty cell above or
\* diagonally above, flow an Empty cell or a Liquid of lower density below,
\* diagonally below or up to five cells to the side
noTarget ==
    CASE lastOp.op = "fall" ->
           \/ solidCanFall(movedCell) = 0
           \/ \A c \in cellsAt(prevGrid, movedFrom, {<<-1, 1>>, <<0, 1>>, <<1, 1>>}) :
                 c.type # EMPTY
      [] lastOp.op = "rise" ->
           \A c \in cellsAt(prevGrid, movedFrom, {<<-1, -1>>, <<0, -1>>, <<1, -1>>}) :
              c.type # EMPTY
      [] lastOp.op = "flow" ->
           \A c \in cellsAt(prevGrid, movedFrom,
                            {<<-1, 1>>, <<0, 1>>, <<1, 1>>} \cup
                            {<<d, 0>> : d \in (-5 .. 5) \ {0}}) :
              /\ c.type # EMPTY
              /\ ~(c.category = LIQUID /\ liquidDensity(c) < liquidDensity(movedCell))
      [] OTHER -> FALSE

\* C25: when fall, flow or rise finds no qualifying target, the cell stays
\* where it is, is written back to the next buffer, and its lastUpdate is
\* one more than before the call, also at the edges of the grid and for a
\* solid whose can-fall flag is clear.
C25_BlockedCellIsBumped ==
    (lastOp.op \in MoveOps /\ noTarget) =>
        /\ at(currentGrid, movedFrom) = [movedCell EXCEPT !.lastUpdate = @ + 1]
        /\ at(nextGrid, movedFrom) = [movedCell EXCEPT !.lastUpdate = @ + 1]

\* the positions of the bottom row that held Sand before and after the last
\* update(): with one Sand cell on the grid it is the same cell, and it
\* cannot have moved
settled ==
    {p \in Xs \X {HEIGHT - 1} :
        at(prevGrid, p).type = SAND /\ at(currentGrid, p).type = SAND}

\* C26: the lastUpdate counter of a cell that does not move is capped: from
\* one tick to the next it never decreases, however long the cell stays
\* blocked.
C26_TimerNeverDecreases ==
    stepped => \A p \in settled :
        at(currentGrid, p).lastUpdate >= at(prevGrid, p).lastUpdate

\* the ticks the Sand cell painted on the bottom row had been blocked for
\* when the last update() began
blockedFor == nSteps - 1

\* C27: a Sand cell blocked for 300 or more consecutive ticks is let through
\* to its fall attempt only on ticks where the global counter is a multiple
\* of 90, one blocked for at least 60 but fewer than 300 ticks only on
\* multiples of 30.
C27_SettledSandThrottled ==
    stepped => \A p \in tried \cap settled :
        /\ blockedFor >= 300 => frameCounter % 90 = 0
        /\ (blockedFor >= 60 /\ blockedFor < 300) => frameCounter % 30 = 0

\* the positions of the current grid whose cell fall would be called for
\* with the can-fall flag set, the cell below not Empty and both diagonals
\* below on the grid and Empty
forked ==
    {p \in Xs \X Ys :
        /\ moveOf(at(currentGrid, p).type) = "fall"
        /\ solidCanFall(at(currentGrid, p)) = 1
        /\ onGrid(p[1] - 1, p[2] + 1) /\ onGrid(p[1] + 1, p[2] + 1)
        /\ at(currentGrid, <<p[1], p[2] + 1>>).type # EMPTY
        /\ at(currentGrid, <<p[1] - 1, p[2] + 1>>).type = EMPTY
        /\ at(currentGrid, <<p[1] + 1, p[2] + 1>>).type = EMPTY}

\* C28: fall relocates a cell only when its can-fall flag is set, and only
\* into an Empty cell of the row directly below at horizontal offset -1, 0
\* or +1; when the cell directly below is Empty it is the one chosen; and
\* the two diagonals can be tried left first or right first.
C28_FallGoesDownIntoEmpty ==
    /\ lastOp.op = "fall" =>
          /\ \A q \in (Xs \X Ys) \ {movedFrom} :
                at(currentGrid, q) # at(prevGrid, q) =>
                   /\ solidCanFall(movedCell) = 1
                   /\ at(prevGrid, q).type = EMPTY
                   /\ q[2] = movedFrom[2] + 1
                   /\ q[1] - movedFrom[1] \in -1 .. 1
                   /\ at(currentGrid, q) = movedCell
                   /\ at(currentGrid, movedFrom) = at(prevGrid, q)
          /\ \A c \in cellsAt(prevGrid, movedFrom, {<<0, 1>>}) :
                (c.type = EMPTY /\ solidCanFall(movedCell) = 1) =>
                   at(currentGrid, <<movedFrom[1], movedFrom[2] + 1>>) = movedCell
    /\ ~aborted =>
          \A p \in forked : \A dx \in {-1, 1} :
             \E t \in fall(simState, p[1], p[2]) :
                at(t.cur, <<p[1] + dx, p[2] + 1>>) = at(currentGrid, p)

\* fall has moved a cell down to the right although the cell down to the
\* left was Empty as well
C28_Witness ==
    /\ lastOp.op = "fall"
    /\ onGrid(movedFrom[1] - 1, movedFrom[2] + 1)
    /\ onGrid(movedFrom[1] + 1, movedFrom[2] + 1)
    /\ at(prevGrid, <<movedFrom[1], movedFrom[2] + 1>>).type # EMPTY
    /\ at(prevGrid, <<movedFrom[1] - 1, movedFrom[2] + 1>>).type = EMPTY
    /\ at(prevGrid, <<movedFrom[1] + 1, movedFrom[2] + 1>>).type = EMPTY
    /\ at(currentGrid, <<movedFrom[1] + 1, movedFrom[2] + 1>>) = movedCell
    /\ at(currentGrid, movedFrom).type = EMPTY

\* the positions of the current grid whose cell rise would be called for
\* with the cell above not Empty and both diagonals above on the grid and
\* Empty
lifted ==
    {p \in Xs \X Ys :
        /\ moveOf(at(currentGrid, p).type) = "rise"
        /\ onGrid(p[1] - 1, p[2] - 1) /\ onGrid(p[1] + 1, p[2] - 1)
        /\ at(currentGrid, <<p[1], p[2] - 1>>).type # EMPTY
        /\ at(currentGrid, <<p[1] - 1, p[2] - 1>>).type = EMPTY
        /\ at(currentGrid, <<p[1] + 1, p[2] - 1>>).type = EMPTY}

\* C29: when the cell directly above a gas is not Empty and both the
\* up-left and the up-right cells are Empty, rise can move the gas to either
\* diagonal: both outcomes are possible.
C29_RiseTakesEitherDiagonal ==
    ~aborted =>
        \A p \in lifted : \A dx \in {-1, 1} :
            at(rise(simState, p[1], p[2]).cur, <<p[1] + dx, p[2] - 1>>) = at(currentGrid, p)

\* C30: flow exchanges a liquid cell only with an Empty cell or with a
\* Liquid cell of strictly lower density, never with a Solid cell: Water
\* resting on Stone or Sand stays above it.
C30_FlowSwapsWithEmptyOrLighterLiquid ==
    lastOp.op = "flow" =>
        \A q \in (Xs \X Ys) \ {movedFrom} :
            at(currentGrid, q) # at(prevGrid, q) =>
                \/ at(prevGrid, q).type = EMPTY
                \/ /\ at(prevGrid, q).category = LIQUID
                   /\ liquidDensity(at(prevGrid, q)) < liquidDensity(movedCell)

sandCells(g) == {p \in Xs \X Ys : at(g, p).type = SAND}

sandStaysCool ==
    \A g \in {prevGrid, prevNext, currentGrid, nextGrid} :
        \A p \in sandCells(g) : at(g, p).temperature < 1700

\* C32: step() conserves granular material: as long as every Sand cell stays
\* below 1700 degrees and nothing is painted, the committed grid holds as many
\* Sand cells after a step() as before it.
C32_SandIsConserved ==
    (stepped /\ sandStaysCool) =>
        Cardinality(sandCells(currentGrid)) = Cardinality(sandCells(prevGrid))

C32_Witness ==
    /\ stepped /\ sandStaysCool
    /\ sandCells(currentGrid) # {}
    /\ sandCells(currentGrid) # sandCells(prevGrid)
    /\ born # {}

====
